---- MODULE Spec2Model ----
(***************************************************************************)
(* A model of ssmeb (src/ssmeb.go): one run of main, from flag parsing to  *)
(* process exit.  Strings the program computes with (paths, environment,   *)
(* values, the input stream) are sequences of one-character strings.       *)
(***************************************************************************)
EXTENDS Integers, Sequences, FiniteSets, TLC

VARIABLES
    pc,          \* position of main
    argv,        \* the command line: input, output, environment, modeFlag
    mode,        \* the mode variable of main
    inputFile,   \* the input file: status and the two lists as written there
    parameters,  \* result of readParametersFile
    i,           \* index of the running range loop
    eb,          \* eb.Options of getBeanstalkOptions
    ebYaml,      \* result of yaml.Marshal
    ssm,         \* the remote parameter store: path -> value
    getLog,      \* GetParameter calls issued, in order
    putLog,      \* PutParameter calls issued, in order
    reads,       \* ReadString calls issued, in order, each with the stream it met
    stdin,       \* bytes of standard input not yet taken from the OS
    stdinTaken,  \* bytes of standard input already taken from the OS
    stdout,      \* what was written to standard output, in order
    outFile,     \* the file at the output path
    fsOps        \* file system calls issued by writeToFile, in order

vars == <<pc, argv, mode, inputFile, parameters, i, eb, ebYaml, ssm, getLog,
          putLog, reads, stdin, stdinTaken, stdout, outFile, fsOps>>

(***************************************************************************)
(* Bounds                                                                  *)
(***************************************************************************)
MaxLen == 2      \* longest component / external list
MaxStdin == 3    \* most bytes waiting on standard input

NL == "\n"
CR == "\r"
NoFlag == "<unset>"
InputPath == "in.yaml"
OutputPath == "out.config"

SeqsUpTo(S, n) == UNION {[1..k -> S] : k \in 0..n}

(***************************************************************************)
(* Data model                                                              *)
(***************************************************************************)
parameter(name, description, path, value) ==
    [Name |-> name, Description |-> description, Path |-> path, Value |-> value]

ebOption(name, value) == [Name |-> name, Value |-> value]

pA == parameter(<<"A">>, <<"d">>, <<"/", "a">>, <<>>)
pB == parameter(<<"B">>, <<>>, <<"/", "b">>, <<"v">>)
pC == parameter(<<"A">>, <<"c">>, <<"/", "a">>, <<"w">>)
pX == parameter(<<"X">>, <<>>, <<"/", "x">>, <<"s">>)

CompPool == {pA, pB, pC}
ExtPool == {pA, pX}
Envs == {<<>>, <<"q">>}
StdinChars == {"x", CR, NL}
Stdins == SeqsUpTo(StdinChars, MaxStdin)

\* Keys present in the remote store before the run; each holds its own key
\* as value, so that a fetched value tells which key was asked for.
StorePaths ==
    LET ps == {p.Path : p \in CompPool \cup ExtPool}
    IN  ps \cup {<<"/">> \o e \o p : e \in Envs \ {<<>>}, p \in ps}

SsmInit == [p \in StorePaths |-> p]

(***************************************************************************)
(* Library functions the program calls                                     *)
(***************************************************************************)
RECURSIVE Replace(_, _)
\* strings.Replace(s, old, "", -1) for a one-character old: drops every old.
Replace(s, old) ==
    IF s = <<>> THEN <<>>
    ELSE IF Head(s) = old THEN Replace(Tail(s), old)
         ELSE <<Head(s)>> \o Replace(Tail(s), old)

\* Position of the first delim in s, 0 when there is none.
IndexByte(s, delim) ==
    IF \E k \in 1..Len(s) : s[k] = delim
    THEN CHOOSE k \in 1..Len(s) : s[k] = delim /\ \A j \in 1..(k-1) : s[j] # delim
    ELSE 0

\* bufio.NewReader(os.Stdin) followed by one reader.ReadString(delim), the
\* reader being dropped afterwards.  The reader fills its buffer by reads of
\* the stream until the buffer holds delim; the last read may bring any
\* number of the bytes that wait behind delim, and those are lost with the
\* reader.  Without delim before the end of the stream everything is taken
\* and the call fails with io.EOF.
ReadString(stream, delim) ==
    LET n == IndexByte(stream, delim)
    IN  IF n = 0
        THEN {[err |-> TRUE, text |-> stream, taken |-> Len(stream)]}
        ELSE {[err |-> FALSE, text |-> SubSeq(stream, 1, n), taken |-> c] :
                 c \in n..Len(stream)}

RECURSIVE MarshalOptions(_)
MarshalOptions(opts) ==
    IF opts = <<>> THEN <<>>
    ELSE <<[key |-> "- option_name", val |-> Head(opts).Name],
           [key |-> "  value", val |-> Head(opts).Value]>>
         \o MarshalOptions(Tail(opts))

\* yaml.Marshal(ebOptionSettings): one line for the top-level key, then two
\* lines per option, in order.
Marshal(opts) ==
    <<[key |-> "option_settings", val |-> <<>>]>> \o MarshalOptions(opts)

\* ssmClient.GetParameter: the stored value, or an error (unknown key, or any
\* remote failure).
GetParameter(store, path) ==
    {[err |-> TRUE, value |-> <<>>]}
    \cup (IF path \in DOMAIN store
          THEN {[err |-> FALSE, value |-> store[path]]} ELSE {})

\* The store after a successful PutParameter with Overwrite = true.
PutParameter(store, in) ==
    [p \in DOMAIN store \cup {in.Name} |->
        IF p = in.Name THEN in.Value ELSE store[p]]

(***************************************************************************)
(* readParametersFile                                                      *)
(***************************************************************************)
PrefixPath(environment, par) ==
    [par EXCEPT !.Path = <<"/">> \o environment \o par.Path]

PrefixList(environment, list) ==
    [k \in 1..Len(list) |-> PrefixPath(environment, list[k])]

\* A variant that leaves the external list as read.
RewritePathsComponentOnly(environment, ps) ==
    IF environment # <<>>
    THEN [Component |-> PrefixList(environment, ps.Component),
          External |-> ps.External]
    ELSE ps

\* The loops of readParametersFile over both lists, run for a non-empty
\* environment only.
RewritePaths(environment, ps) ==
    IF environment # <<>>
    THEN [Component |-> PrefixList(environment, ps.Component),
          External |-> PrefixList(environment, ps.External)]
    ELSE ps

NoParameters == [Component |-> <<>>, External |-> <<>>]

(***************************************************************************)
(* Initial states: one command line, one input file, one input stream, one *)
(* state of the output path.  Get-mode runs never read the input stream    *)
(* and set-mode runs never touch the output path, so each family varies    *)
(* what its pipeline reads; the third family varies the command line and   *)
(* the state of the input file.                                            *)
(***************************************************************************)
Absent == [exists |-> FALSE, content |-> <<>>, open |-> FALSE]
OldFile ==
    [exists |-> TRUE, content |-> <<[key |-> "old", val |-> <<>>]>>, open |-> FALSE]

Lists(pool) == SeqsUpTo(pool, MaxLen)

InitCommon ==
    /\ pc = "start"
    /\ mode = NoFlag
    /\ parameters = NoParameters
    /\ i = 0
    /\ eb = <<>>
    /\ ebYaml = <<>>
    /\ ssm = SsmInit
    /\ getLog = <<>>
    /\ putLog = <<>>
    /\ reads = <<>>
    /\ stdinTaken = <<>>
    /\ stdout = <<>>
    /\ fsOps = <<>>

InitGet ==
    /\ argv \in [input : {InputPath}, output : {"", OutputPath},
                 environment : Envs, modeFlag : {NoFlag, "get"}]
    /\ inputFile \in [status : {"ok"}, Component : Lists(CompPool),
                      External : Lists(ExtPool)]
    /\ stdin = <<>>
    /\ outFile \in {Absent, OldFile}

InitSet ==
    /\ argv \in [input : {InputPath}, output : {"", OutputPath},
                 environment : Envs, modeFlag : {"set"}]
    /\ inputFile \in [status : {"ok"}, Component : Lists(CompPool),
                      External : Lists(ExtPool)]
    /\ stdin \in Stdins
    /\ outFile = OldFile

InitAny ==
    /\ argv \in [input : {"", InputPath}, output : {"", OutputPath},
                 environment : Envs, modeFlag : {NoFlag, "get", "set", "sync"}]
    /\ inputFile \in [status : {"ok", "unreadable", "malformed"},
                      Component : {<<pA, pB>>}, External : {<<pX>>}]
    /\ stdin = <<"x", NL>>
    /\ outFile = Absent

Init == InitCommon /\ (InitGet \/ InitSet \/ InitAny)

(***************************************************************************)
(* main                                                                    *)
(***************************************************************************)
Ended == pc \in {"done", "fatal", "panic"}

\* flag.Parse and the check of the mandatory input flag.
ParseFlags ==
    /\ pc = "start"
    /\ mode' = IF argv.modeFlag = NoFlag THEN "get" ELSE argv.modeFlag
    /\ pc' = IF argv.input = "" THEN "fatal" ELSE "read"
    /\ UNCHANGED <<argv, inputFile, parameters, i, eb, ebYaml, ssm, getLog,
                   putLog, reads, stdin, stdinTaken, stdout, outFile, fsOps>>

ReadParametersFile ==
    /\ pc = "read"
    /\ IF inputFile.status # "ok"
       THEN /\ pc' = "fatal"
            /\ UNCHANGED parameters
       ELSE /\ parameters' =
                 RewritePaths(argv.environment,
                              [Component |-> inputFile.Component,
                               External |-> inputFile.External])
            /\ pc' = "session"
    /\ UNCHANGED <<argv, mode, inputFile, i, eb, ebYaml, ssm, getLog, putLog,
                   reads, stdin, stdinTaken, stdout, outFile, fsOps>>

\* A variant that runs the get pipeline for every mode but "set".
NewSessionGetByDefault ==
    /\ pc = "session"
    /\ \/ pc' = "panic" /\ UNCHANGED i
       \/ /\ pc' = IF mode = "set" THEN "set" ELSE "getComponent"
          /\ i' = 1
    /\ UNCHANGED <<argv, mode, inputFile, parameters, eb, ebYaml, ssm, getLog,
                   putLog, reads, stdin, stdinTaken, stdout, outFile, fsOps>>

\* session.Must(session.NewSessionWithOptions(...)) panics on an error;
\* then the mode selects the pipeline.
NewSession ==
    /\ pc = "session"
    /\ \/ pc' = "panic" /\ UNCHANGED i
       \/ /\ pc' = CASE mode = "get" -> "getComponent"
                     [] mode = "set" -> "set"
                     [] OTHER -> "fatal"
          /\ i' = 1
    /\ UNCHANGED <<argv, mode, inputFile, parameters, eb, ebYaml, ssm, getLog,
                   putLog, reads, stdin, stdinTaken, stdout, outFile, fsOps>>

(***************************************************************************)
(* getBeanstalkOptions                                                     *)
(***************************************************************************)
\* A variant that keeps one option per name.
AppendOptionUnique(opts, par, value) ==
    IF \E k \in 1..Len(opts) : opts[k].Name = par.Name
    THEN opts
    ELSE Append(opts, ebOption(par.Name, value))

\* eb.Options = append(eb.Options, ebOption{Name: par.Name, Value: value})
AppendOption(opts, par, value) == Append(opts, ebOption(par.Name, value))

\* A variant that skips a parameter whose fetch fails and carries on.
GetOneLenient(list) ==
    /\ i <= Len(list)
    /\ getLog' = Append(getLog, list[i].Path)
    /\ \E r \in GetParameter(ssm, list[i].Path) :
          /\ eb' = IF r.err THEN eb ELSE AppendOption(eb, list[i], r.value)
          /\ i' = i + 1
          /\ UNCHANGED pc
    /\ UNCHANGED <<argv, mode, inputFile, parameters, ebYaml, ssm, putLog,
                   reads, stdin, stdinTaken, stdout, outFile, fsOps>>

\* One iteration of a range loop of getBeanstalkOptions over list.
GetOne(list) ==
    /\ i <= Len(list)
    /\ getLog' = Append(getLog, list[i].Path)
    /\ \E r \in GetParameter(ssm, list[i].Path) :
          IF r.err
          THEN /\ pc' = "fatal"
               /\ UNCHANGED <<eb, i>>
          ELSE /\ eb' = AppendOption(eb, list[i], r.value)
               /\ i' = i + 1
               /\ UNCHANGED pc
    /\ UNCHANGED <<argv, mode, inputFile, parameters, ebYaml, ssm, putLog,
                   reads, stdin, stdinTaken, stdout, outFile, fsOps>>

GetComponent ==
    /\ pc = "getComponent"
    /\ GetOne(parameters.Component)

GetComponentEnd ==
    /\ pc = "getComponent"
    /\ i > Len(parameters.Component)
    /\ pc' = "getExternal"
    /\ i' = 1
    /\ UNCHANGED <<argv, mode, inputFile, parameters, eb, ebYaml, ssm, getLog,
                   putLog, reads, stdin, stdinTaken, stdout, outFile, fsOps>>

GetExternal ==
    /\ pc = "getExternal"
    /\ GetOne(parameters.External)

\* return eb, nil; then yaml.Marshal in main.
GetExternalEnd ==
    /\ pc = "getExternal"
    /\ i > Len(parameters.External)
    /\ \/ pc' = "fatal" /\ UNCHANGED ebYaml
       \/ pc' = "emit" /\ ebYaml' = Marshal(eb)
    /\ UNCHANGED <<argv, mode, inputFile, parameters, i, eb, ssm, getLog,
                   putLog, reads, stdin, stdinTaken, stdout, outFile, fsOps>>

\* fmt.Println(string(ebYaml))
PrintYaml ==
    /\ pc = "emit"
    /\ argv.output = ""
    /\ stdout' = Append(stdout, [kind |-> "document", data |-> ebYaml])
    /\ pc' = "done"
    /\ UNCHANGED <<argv, mode, inputFile, parameters, i, eb, ebYaml, ssm,
                   getLog, putLog, reads, stdin, stdinTaken, outFile, fsOps>>

\* A variant that never closes the file.
WriteToFileNoClose ==
    /\ pc = "emit"
    /\ argv.output # ""
    /\ \/ /\ fsOps' = Append(fsOps, "create")
          /\ UNCHANGED outFile
          /\ pc' = "fatal"
       \/ /\ fsOps' = fsOps \o <<"create", "write">>
          /\ \E n \in 0..Len(ebYaml) :
                outFile' = [exists |-> TRUE, content |-> SubSeq(ebYaml, 1, n),
                            open |-> TRUE]
          /\ pc' = IF outFile'.content = ebYaml THEN "done" ELSE "fatal"
    /\ UNCHANGED <<argv, mode, inputFile, parameters, i, eb, ebYaml, ssm,
                   getLog, putLog, reads, stdin, stdinTaken, stdout>>

\* writeToFile and the check of its error in main.  A failed Write leaves
\* any proper prefix of the data in the file, which stays open.
WriteToFile ==
    /\ pc = "emit"
    /\ argv.output # ""
    /\ \/ /\ fsOps' = Append(fsOps, "create")
          /\ UNCHANGED outFile
          /\ pc' = "fatal"
       \/ /\ fsOps' = fsOps \o <<"create", "write">>
          /\ \E n \in 0..(Len(ebYaml) - 1) :
                outFile' = [exists |-> TRUE, content |-> SubSeq(ebYaml, 1, n),
                            open |-> TRUE]
          /\ pc' = "fatal"
       \/ /\ fsOps' = fsOps \o <<"create", "write", "close">>
          /\ outFile' = [exists |-> TRUE, content |-> ebYaml, open |-> FALSE]
          /\ pc' \in {"fatal", "done"}
    /\ UNCHANGED <<argv, mode, inputFile, parameters, i, eb, ebYaml, ssm,
                   getLog, putLog, reads, stdin, stdinTaken, stdout>>

(***************************************************************************)
(* setBeanstalkOptions                                                     *)
(***************************************************************************)
\* A variant that ranges over both lists.
SetTargetsAll(ps) == ps.Component \o ps.External

\* The list setBeanstalkOptions ranges over.
SetTargets(ps) == ps.Component

RECURSIVE TrimLeft(_)
TrimLeft(s) ==
    IF s # <<>> /\ Head(s) \in {NL, CR, " "} THEN TrimLeft(Tail(s)) ELSE s

RECURSIVE TrimRight(_)
TrimRight(s) ==
    IF s # <<>> /\ s[Len(s)] \in {NL, CR, " "}
    THEN TrimRight(SubSeq(s, 1, Len(s) - 1)) ELSE s

\* A variant that trims white space at both ends (strings.TrimSpace).
PromptValueTrimmed(text) == TrimRight(TrimLeft(text))

\* The value of the prompted parameter, from the text ReadString returned.
PromptValue(text) == Replace(text, NL)

\* A variant that asks for every value.
PromptedAlways(par) == TRUE

\* Whether the value of par is asked for on the input stream.
Prompted(par) == par.Value = <<>>

PutParameterInput(par, value) ==
    [Name |-> par.Path, Description |-> par.Description, Value |-> value,
     Overwrite |-> TRUE, Type |-> "String"]

\* A variant that restores the store when the call fails.
PutWithRollback(par, value, out) ==
    LET in == PutParameterInput(par, value)
        printed == Append(out, [kind |-> "input", data |-> in])
    IN  \/ /\ putLog' = Append(putLog, [in |-> in, index |-> i, err |-> TRUE])
           /\ stdout' = printed
           /\ pc' = "fatal"
           /\ ssm' = SsmInit
           /\ UNCHANGED i
        \/ /\ putLog' = Append(putLog, [in |-> in, index |-> i, err |-> FALSE])
           /\ stdout' = Append(printed, [kind |-> "result", data |-> in.Name])
           /\ ssm' = PutParameter(ssm, in)
           /\ i' = i + 1
           /\ UNCHANGED pc

\* The PutParameter call of one iteration and what follows it.
Put(par, value, out) ==
    LET in == PutParameterInput(par, value)
        printed == Append(out, [kind |-> "input", data |-> in])
    IN  \/ /\ putLog' = Append(putLog, [in |-> in, index |-> i, err |-> TRUE])
           /\ stdout' = printed
           /\ pc' = "fatal"
           /\ UNCHANGED <<ssm, i>>
        \/ /\ putLog' = Append(putLog, [in |-> in, index |-> i, err |-> FALSE])
           /\ stdout' = Append(printed, [kind |-> "result", data |-> in.Name])
           /\ ssm' = PutParameter(ssm, in)
           /\ i' = i + 1
           /\ UNCHANGED pc

\* One iteration of the range loop of setBeanstalkOptions.
SetOne ==
    /\ pc = "set"
    /\ i <= Len(SetTargets(parameters))
    /\ LET par == SetTargets(parameters)[i]
       IN  IF Prompted(par)
           THEN LET out == Append(stdout, [kind |-> "prompt", data |-> par.Path])
                IN  /\ reads' = Append(reads, [index |-> i, stream |-> stdin])
                    /\ \E r \in ReadString(stdin, NL) :
                          /\ stdin' = SubSeq(stdin, r.taken + 1, Len(stdin))
                          /\ stdinTaken' = stdinTaken \o SubSeq(stdin, 1, r.taken)
                          /\ IF r.err
                             THEN /\ pc' = "fatal"
                                  /\ stdout' = out
                                  /\ UNCHANGED <<ssm, putLog, i>>
                             ELSE Put(par, PromptValue(r.text), out)
           ELSE /\ Put(par, par.Value,
                       Append(stdout, [kind |-> "setting", data |-> par.Path]))
                /\ UNCHANGED <<reads, stdin, stdinTaken>>
    /\ UNCHANGED <<argv, mode, inputFile, parameters, eb, ebYaml, getLog,
                   outFile, fsOps>>

\* return nil, and main returns.
SetEnd ==
    /\ pc = "set"
    /\ i > Len(SetTargets(parameters))
    /\ pc' = "done"
    /\ UNCHANGED <<argv, mode, inputFile, parameters, i, eb, ebYaml, ssm,
                   getLog, putLog, reads, stdin, stdinTaken, stdout, outFile,
                   fsOps>>

Next ==
    \/ ParseFlags
    \/ ReadParametersFile
    \/ NewSession
    \/ GetComponent
    \/ GetComponentEnd
    \/ GetExternal
    \/ GetExternalEnd
    \/ PrintYaml
    \/ WriteToFile
    \/ SetOne
    \/ SetEnd

Spec == Init /\ [][Next]_vars

(***************************************************************************)
(* Properties                                                              *)
(***************************************************************************)
\* The run got past readParametersFile.
Loaded == pc \notin {"start", "read"} /\ argv.input # "" /\ inputFile.status = "ok"

GetRun == Loaded /\ mode = "get"
SetRun == Loaded /\ mode = "set"

\* The path a parameter written with path P in the file is expected to have.
ExpectedPath(P) ==
    IF argv.environment = <<>> THEN P ELSE <<"/">> \o argv.environment \o P

ExpectedList(read, written) ==
    /\ Len(read) = Len(written)
    /\ \A k \in 1..Len(written) :
          /\ read[k].Path = ExpectedPath(written[k].Path)
          /\ read[k].Name = written[k].Name
          /\ read[k].Description = written[k].Description
          /\ read[k].Value = written[k].Value

\* C1: once the file is read, and for the rest of the run, every parameter of
\* both lists has the path "/" + E + P for a non-empty environment E and the
\* path P as written for an empty one; names, descriptions, values, lengths
\* and order are those of the file.
C1_PathRewriting ==
    Loaded => /\ ExpectedList(parameters.Component, inputFile.Component)
              /\ ExpectedList(parameters.External, inputFile.External)

C1_Witness ==
    /\ pc = "session"
    /\ argv.environment = <<"q">>
    /\ Len(parameters.Component) = 2
    /\ Len(parameters.External) = 2
    /\ parameters.External[2].Path = <<"/", "q", "/", "x">>

Written == inputFile.Component \o inputFile.External

\* C2: when every fetch of a get-mode run succeeded, the option list has one
\* entry per parameter of component ++ external, in that order, each with the
\* parameter's name and the value the store holds at its prefixed path.
C2_GetOrdering ==
    (GetRun /\ pc \in {"emit", "done"}) =>
        /\ Len(eb) = Len(inputFile.Component) + Len(inputFile.External)
        /\ \A k \in 1..Len(Written) :
              /\ eb[k].Name = Written[k].Name
              /\ eb[k].Value = SsmInit[ExpectedPath(Written[k].Path)]
        /\ getLog = [k \in 1..Len(Written) |-> ExpectedPath(Written[k].Path)]

C2_Witness ==
    /\ GetRun
    /\ pc = "emit"
    /\ argv.environment = <<"q">>
    /\ inputFile.Component = <<pA, pC>>
    /\ inputFile.External = <<pA, pX>>
    /\ Len(eb) = 4

\* A fetch of the running get-mode loop has failed.
FetchFailed == GetRun /\ Len(getLog) > Len(eb)

\* C3: a failed fetch is the last fetch; the run is then in the fatal state
\* for good, with nothing on standard output, no serialized document and the
\* destination file untouched.
C3_GetFailureAborts ==
    /\ GetRun => Len(getLog) <= Len(eb) + 1
    /\ FetchFailed =>
          /\ pc = "fatal"
          /\ ~ENABLED Next
          /\ stdout = <<>>
          /\ ebYaml = <<>>
          /\ fsOps = <<>>
          /\ outFile \in {Absent, OldFile}
          /\ getLog = [k \in 1..Len(getLog) |-> ExpectedPath(Written[k].Path)]

C3_Witness ==
    /\ FetchFailed
    /\ Len(Written) = 3
    /\ Len(getLog) = 2
    /\ Len(eb) = 1
    /\ argv.output # ""
    /\ outFile = OldFile

\* C4: the j-th store of a set-mode run is for the j-th component entry, and
\* an external entry whose path no component entry has is never stored.
C4_SetOnlyComponent ==
    SetRun =>
        /\ Len(putLog) <= Len(parameters.Component)
        /\ \A j \in 1..Len(putLog) :
              /\ putLog[j].index = j
              /\ putLog[j].in.Name = parameters.Component[j].Path
        /\ \A e \in 1..Len(parameters.External) :
              (\A c \in 1..Len(parameters.Component) :
                   parameters.Component[c].Path # parameters.External[e].Path)
              => \A j \in 1..Len(putLog) :
                    putLog[j].in.Name # parameters.External[e].Path

C4_Witness ==
    /\ SetRun
    /\ pc = "done"
    /\ Len(putLog) = 2
    /\ Len(parameters.External) = 2
    /\ parameters.External[1].Value # <<>>

\* C5: a component parameter with a non-empty value is stored with that
\* value, its path and its description, and the input stream is read only
\* for parameters with an empty value.
C5_ValueFromConfig ==
    SetRun =>
        /\ \A j \in 1..Len(putLog) :
              LET par == parameters.Component[j]
              IN  par.Value # <<>> =>
                     /\ putLog[j].in.Value = par.Value
                     /\ putLog[j].in.Name = par.Path
                     /\ putLog[j].in.Description = par.Description
        /\ \A r \in 1..Len(reads) :
              /\ reads[r].index \in 1..Len(parameters.Component)
              /\ parameters.Component[reads[r].index].Value = <<>>
        /\ (reads = <<>> => stdinTaken = <<>>)

C5_Witness ==
    /\ SetRun
    /\ pc = "done"
    /\ Len(putLog) = 2
    /\ putLog[1].in.Value = <<"v">>
    /\ putLog[2].in.Value = <<"w">>
    /\ reads = <<>>
    /\ stdin = <<"x", NL>>

RECURSIVE Stored(_, _)
\* The content of the store after the successful calls of log, oldest first.
Stored(store, log) ==
    IF log = <<>> THEN store
    ELSE LET in == Head(log).in
             next == IF Head(log).err THEN store
                     ELSE [p \in DOMAIN store \cup {in.Name} |->
                              IF p = in.Name THEN in.Value ELSE store[p]]
         IN  Stored(next, Tail(log))

\* C6: only the last store of a set-mode run can have failed; a failed store
\* or a failed read leaves the run in the fatal state for good, and the store
\* holds what the earlier stores wrote.
C6_NoRollback ==
    SetRun =>
        /\ \A j \in 1..Len(putLog) :
              putLog[j].err => (j = Len(putLog) /\ pc = "fatal")
        /\ Len(reads) > Len(putLog) => pc = "fatal"
        /\ pc = "fatal" => ~ENABLED Next
        /\ ssm = Stored(SsmInit, putLog)

C6_Witness ==
    /\ SetRun
    /\ pc = "fatal"
    /\ Len(putLog) = 2
    /\ putLog[2].err
    /\ ssm[putLog[1].in.Name] = <<"x", CR>>
    /\ argv.environment = <<"q">>

\* C7: a get-mode run never stores, a set-mode run never fetches and never
\* writes a document, a run with another mode does none of these and can only
\* end abnormally; without a mode flag the mode is "get".
C7_ModeSelectsPipeline ==
    /\ (pc # "start" /\ argv.modeFlag = NoFlag) => mode = "get"
    /\ (pc # "start" /\ mode = "get") =>
          /\ putLog = <<>>
          /\ reads = <<>>
          /\ ssm = SsmInit
          /\ pc # "set"
    /\ (pc # "start" /\ mode = "set") =>
          /\ getLog = <<>>
          /\ ebYaml = <<>>
          /\ fsOps = <<>>
          /\ outFile \in {Absent, OldFile}
          /\ \A k \in 1..Len(stdout) : stdout[k].kind # "document"
          /\ pc \notin {"getComponent", "getExternal", "emit"}
    /\ (pc # "start" /\ mode \notin {"get", "set"}) =>
          /\ getLog = <<>>
          /\ putLog = <<>>
          /\ ssm = SsmInit
          /\ stdout = <<>>
          /\ fsOps = <<>>
          /\ outFile \in {Absent, OldFile}
          /\ pc \in {"read", "session", "fatal", "panic"}
          /\ ~ENABLED Next => pc \in {"fatal", "panic"}

C7_Witness ==
    /\ SetRun
    /\ pc = "done"
    /\ argv.output # ""
    /\ Len(putLog) = 2
    /\ Len(parameters.External) = 1

\* C8: a get-mode run that ends well has emitted the serialized option list
\* once: on standard output, with no file system call, when the output path
\* is empty; otherwise in the file, created, holding the whole document and
\* closed, with nothing on standard output.  A run that called the file
\* system and did not end well is in the fatal state.
C8_OutputDestination ==
    GetRun =>
        /\ pc \in {"emit", "done"} => ebYaml = Marshal(eb)
        /\ pc = "done" =>
              IF argv.output = ""
              THEN /\ stdout = <<[kind |-> "document", data |-> ebYaml]>>
                   /\ fsOps = <<>>
                   /\ outFile \in {Absent, OldFile}
              ELSE /\ stdout = <<>>
                   /\ fsOps = <<"create", "write", "close">>
                   /\ outFile = [exists |-> TRUE, content |-> ebYaml,
                                 open |-> FALSE]
        /\ (fsOps # <<>> /\ pc # "done") => (pc = "fatal" /\ stdout = <<>>)
        /\ pc = "done" => ~ENABLED Next

C8_Witness ==
    /\ GetRun
    /\ pc = "done"
    /\ argv.output # ""
    /\ Len(eb) = 3
    /\ outFile.content = Marshal(eb)
    /\ ~outFile.open

\* C9: the value stored for a prompted parameter, followed by a newline, is
\* the beginning of the input stream as the read met it, and holds no
\* newline: the line, every character kept, less its terminating newline.
C9_PromptedValue ==
    SetRun =>
        \A j \in 1..Len(putLog) :
            parameters.Component[j].Value = <<>> =>
                \E r \in 1..Len(reads) :
                    /\ reads[r].index = j
                    /\ LET v == putLog[j].in.Value
                           s == reads[r].stream
                       IN  /\ Len(s) > Len(v)
                           /\ SubSeq(s, 1, Len(v)) = v
                           /\ s[Len(v) + 1] = NL
                           /\ \A k \in 1..Len(v) : v[k] # NL

C9_Witness ==
    /\ SetRun
    /\ pc = "done"
    /\ Len(putLog) = 1
    /\ parameters.Component[1].Value = <<>>
    /\ putLog[1].in.Value = <<"x", CR>>

RECURSIVE SplitLines(_)
\* The newline-terminated lines of s, each without its newline.
SplitLines(s) ==
    LET n == IndexByte(s, NL)
    IN  IF n = 0 THEN <<>>
        ELSE <<SubSeq(s, 1, n - 1)>> \o SplitLines(SubSeq(s, n + 1, Len(s)))

\* Indices of the component parameters with an empty value.
PromptedIndices == {c \in 1..Len(parameters.Component) :
                        parameters.Component[c].Value = <<>>}

\* C10: in a set-mode run that ended without a failed store, with at least
\* as many lines on the input stream as there are parameters with an empty
\* value, the j-th such parameter was stored with the j-th line.
C10_SuccessiveLines ==
    LET lines == SplitLines(stdinTaken \o stdin)
    IN  (/\ SetRun
         /\ pc \in {"done", "fatal"}
         /\ \A j \in 1..Len(putLog) : ~putLog[j].err
         /\ Len(lines) >= Cardinality(PromptedIndices))
        => \A c \in PromptedIndices :
              /\ c <= Len(putLog)
              /\ putLog[c].in.Value =
                    lines[Cardinality({d \in PromptedIndices : d <= c})]

====
